---------------------------- MODULE Spec2Model ----------------------------
(***************************************************************************)
(* Model of the panda gallery: the engagement server (views / hearts per  *)
(* panda, per user), the views.json / users.json stores it persists, and  *)
(* the offline catalog tools (reset, sync, fix-images) that rewrite the   *)
(* catalog (index.html) and views.json.                                    *)
(*                                                                         *)
(* JavaScript values are modelled as follows.                              *)
(*  - a plain object used as a map (data, users, the JSON stores) is a     *)
(*    function whose DOMAIN is the set of own keys;                        *)
(*  - an Array is a sequence; a Set is a duplicate-free sequence in        *)
(*    insertion order (which is how a JS Set iterates);                    *)
(*  - a missing header / body field is the empty string (falsy).           *)
(***************************************************************************)
EXTENDS Integers, Sequences, FiniteSets, TLC

\* ----------------------------------------------------------------- bounds
\* views of one panda are capped so that the state space is finite
MaxViews == 2
\* the catalog holds at most this many blocks
MaxBlocks == 3
\* the markup handed to extractImageContainers has at most this many tags
MaxTags == 5

\* the default panda ids of the reset script (pandaIds)
PandaIds == {"panda1", "panda2", "panda3", "panda4", "panda5"}
\* panda ids used in requests and in the catalog: one of the defaults, one not
Ids == {"panda1", "panda6"}
\* user names that can register
UserNames == {"u1"}
\* a key every plain object inherits from Object.prototype: users["toString"]
\* is a function, hence truthy, although no such user was ever registered
ProtoUser == "toString"
\* absent id (body.id and query.id both missing) / absent X-User-Id header
NoId == ""
NoUser == ""
UserIds == UserNames \cup {ProtoUser}

VARIABLES
  data,         \* server memory: id -> [views, hearts, usersHearted (Set)]
  users,        \* server memory: username -> [password, viewed, hearted]
  protoHearted, \* the .hearted property the server put on users["toString"]
  viewsFile,    \* views.json: [exists, json]
  usersFile,    \* users.json: [exists, json]
  last,         \* the request handled last and its response
  prev,         \* data and users as they were before that request
  anonViews,    \* history: per id, the /view requests counted as anonymous
  catalog,      \* index.html: the image-container blocks of the gallery section
  reach,        \* the network: the absolute URLs that answer 2xx with an image
  tool,         \* the catalog tool run last and what it reported
  inflight,     \* the /heart requests received (body parsed) and not yet handled
  probe,        \* one call of checkUrl: its promise, its request, the events so far
  scan          \* one call of extractImageContainers: the markup and the loop state

serverVars == <<data, users, protoHearted, last, prev, anonViews, inflight>>
toolVars == <<catalog, reach, tool>>
vars == <<data, users, protoHearted, viewsFile, usersFile, last, prev,
          anonViews, catalog, reach, tool, inflight, probe, scan>>

\* ------------------------------------------------------- JS array / Set
\* Array.prototype.includes, Set.prototype.has
Includes(s, x) == \E i \in DOMAIN s : s[i] = x

\* Set.prototype.add: appended only when not yet a member
SetAdd(s, x) == IF Includes(s, x) THEN s ELSE Append(s, x)

\* a delete that removes nothing
SetDeleteNothing(s, x) == s

\* Set.prototype.delete
SetDelete(s, x) == SelectSeq(s, LAMBDA y : y # x)

\* new Set(array): first occurrences, in order
RECURSIVE NewSet(_)
NewSet(arr) ==
  IF arr = <<>> THEN <<>>
  ELSE SetAdd(NewSet(SubSeq(arr, 1, Len(arr) - 1)), arr[Len(arr)])

\* Array.from(set): the members in insertion order
ArrayFrom(s) == s

\* the members of an array, as a mathematical set
Elems(s) == {s[i] : i \in DOMAIN s}

\* how many times x occurs in array s
Count(s, x) == Cardinality({i \in DOMAIN s : s[i] = x})

\* ------------------------------------------------------------ the ledger
ZeroEntry == [views |-> 0, hearts |-> 0, usersHearted |-> <<>>]

\* the entry is (re)created whether or not the id has one
EnsureAlways(d, id) ==
  [x \in DOMAIN d \cup {id} |-> IF x = id THEN ZeroEntry ELSE d[x]]

\* if (!data[id]) data[id] = { views: 0, hearts: 0, usersHearted: new Set() }
Ensure(d, id) == IF id \in DOMAIN d THEN d ELSE d @@ (id :> ZeroEntry)

\* users[userId] is truthy: an own key, or a key inherited from Object.prototype
Truthy(us, uid) == uid \in DOMAIN us \/ uid = ProtoUser

\* a registered user: an own key of users
Registered(us, uid) == uid \in DOMAIN us

NoFile == [exists |-> FALSE, json |-> <<>>]

\* the Sets are handed to JSON.stringify as they are: a Set serializes as {},
\* which loads as no hearters
ToSaveRawSets(d) ==
  [id \in DOMAIN d |->
     [views |-> d[id].views, hearts |-> d[id].hearts, usersHearted |-> <<>>]]

\* saveData: Sets become arrays, the whole ledger is written
ToSave(d) ==
  [id \in DOMAIN d |->
     [views |-> d[id].views, hearts |-> d[id].hearts,
      usersHearted |-> ArrayFrom(d[id].usersHearted)]]

saveData(d) == [exists |-> TRUE, json |-> ToSave(d)]

\* saveUsers: the whole user store is written
saveUsers(us) == [exists |-> TRUE, json |-> us]

\* Number(x) || 0, for the values a store can hold (-1 stands for a value
\* that is not a number)
NumberOr0(x) == IF x < 0 THEN 0 ELSE x

\* load views.json at startup: arrays become Sets, counts become numbers
LoadData(f) ==
  IF ~f.exists THEN <<>>
  ELSE [id \in DOMAIN f.json |->
          [views |-> NumberOr0(f.json[id].views),
           hearts |-> NumberOr0(f.json[id].hearts),
           usersHearted |-> NewSet(f.json[id].usersHearted)]]

\* load users.json at startup
LoadUsers(f) == IF ~f.exists THEN <<>> ELSE f.json

\* the per-user check is skipped: every view counts
HasViewedNever(viewed, id) == FALSE

\* users[userId].viewed.includes(id): this user's view was counted already
HasViewed(viewed, id) == Includes(viewed, id)

\* the count is set rather than incremented
IncViewsOnce(e) == [e EXCEPT !.views = 1]

\* data[id].views = (data[id].views || 0) + 1
IncViews(e) == [e EXCEPT !.views = e.views + 1]

\* the /heart toggle on the ledger entry: flip membership, hearts = size
ToggleSet(s, uid) == IF Includes(s, uid) THEN SetDelete(s, uid) ELSE SetAdd(s, uid)

SetSize(s) == Len(s)

\* hearts kept as a counter of its own, incremented on add and not
\* decremented on delete
ToggleEntryCounting(e, uid) ==
  LET s == ToggleSet(e.usersHearted, uid)
  IN  [e EXCEPT !.usersHearted = s,
                !.hearts = IF Includes(e.usersHearted, uid) THEN @ ELSE @ + 1]

\* the set is written back from the caller's own membership: a user who
\* hearts replaces the set by one holding only that user
ToggleEntryOverwrite(e, uid) ==
  LET s == IF Includes(e.usersHearted, uid) THEN SetDelete(e.usersHearted, uid)
           ELSE <<uid>>
  IN  [e EXCEPT !.usersHearted = s, !.hearts = SetSize(s)]

ToggleEntry(e, uid) ==
  LET s == ToggleSet(e.usersHearted, uid)
  IN  [e EXCEPT !.usersHearted = s, !.hearts = SetSize(s)]

\* the id is added to the user's list but never taken out of it
ToggleHeartedKeep(hearted, id, has) ==
  IF has THEN hearted ELSE ArrayFrom(NewSet(Append(hearted, id)))

\* the /heart toggle on the user's hearted list
\*   has:  hearted.filter(x => x !== id)
\*   else: Array.from(new Set([...hearted, id]))
ToggleHearted(hearted, id, has) ==
  IF has THEN SelectSeq(hearted, LAMBDA x : x # id)
  ELSE ArrayFrom(NewSet(Append(hearted, id)))

\* the body of the response of /data/:id and /view
\*   userHasViewed: userId ? users[userId] && users[userId].viewed.includes(id) : false
\* is undefined for an unknown user, and JSON drops the key
Body(d, us, id, uid) ==
  LET base == [views |-> d[id].views, hearts |-> d[id].hearts,
               userHasHearted |-> IF uid # NoUser
                                  THEN Includes(d[id].usersHearted, uid)
                                  ELSE FALSE]
  IN  IF uid = NoUser THEN base @@ [userHasViewed |-> FALSE]
      ELSE IF Registered(us, uid)
           THEN base @@ [userHasViewed |-> Includes(us[uid].viewed, id)]
           ELSE base

NoBody == <<>>

\* ------------------------------------------------------------ the catalog
\* An image source is modelled by what normalizeSrc and the scheme test look
\* at: abs (starts with http:// or https://), upper (has upper-case letters),
\* query (has a ?query), slash (ends with a /).  NoSrc: the block has no <img src>.
NoSrc == [abs |-> FALSE, path |-> "", upper |-> FALSE, query |-> FALSE, slash |-> FALSE]
Src(abs, upper, query, slash) ==
  [abs |-> abs, path |-> "p.jpg", upper |-> upper, query |-> query, slash |-> slash]

\* img/p.jpg, http://h/p.jpg, http://h/P.JPG/?v=1
Srcs == {Src(FALSE, FALSE, FALSE, FALSE), Src(TRUE, FALSE, FALSE, FALSE),
         Src(TRUE, TRUE, TRUE, TRUE)}
AbsUrls == {s \in Srcs : s.abs}
Blocks == [id : Ids, src : Srcs \cup {NoSrc}]

\* /^https?:\/\//i.test(src)
IsHttp(src) == src.abs

\* checkUrl(src): r.ok, the answer of the network for this URL
checkUrl(url, net) == url \in net

\* normalizeSrc: the query is stripped, one trailing slash is dropped, the
\* result is lower-cased (through new URL(src) or, if that throws, on the raw
\* string); a falsy src is returned as it is
normalizeSrc(src) ==
  IF src = NoSrc THEN src
  ELSE [src EXCEPT !.query = FALSE, !.slash = FALSE, !.upper = FALSE]

Result(b, ok, reason) ==
  [id |-> b.id, src |-> b.src, ok |-> ok, reason |-> reason, block |-> b]

\* main, first pass: results for the blocks, given the ids and raw sources seen
RECURSIVE FirstPass(_, _, _, _)
FirstPass(blocks, seenIds, seenSrcs, net) ==
  IF blocks = <<>> THEN <<>>
  ELSE
    LET b    == Head(blocks)
        rest == Tail(blocks)
    IN  IF b.id \in seenIds
        THEN <<Result(b, FALSE, "duplicate-id")>>
               \o FirstPass(rest, seenIds, seenSrcs, net)
        ELSE IF b.src # NoSrc /\ b.src \in seenSrcs
        THEN <<Result(b, FALSE, "duplicate-src")>>
               \o FirstPass(rest, seenIds \cup {b.id}, seenSrcs, net)
        ELSE
          LET ids2  == seenIds \cup {b.id}
              srcs2 == IF b.src # NoSrc THEN seenSrcs \cup {b.src} ELSE seenSrcs
              r == IF b.src = NoSrc THEN Result(b, FALSE, "no-src")
                   ELSE IF ~IsHttp(b.src) THEN Result(b, TRUE, "local")
                   ELSE IF checkUrl(b.src, net) THEN Result(b, TRUE, "reachable")
                   ELSE Result(b, FALSE, "unreachable")
          IN  <<r>> \o FirstPass(rest, ids2, srcs2, net)

\* the kept block is written with its source normalized
KeptBlockNormalized(r) == [id |-> r.id, src |-> normalizeSrc(r.src)]

\* kept.push(r.block): the block goes back into the gallery as it was
KeptBlock(r) == r.block

Rem(r, reason) == [id |-> r.id, src |-> r.src, reason |-> reason]

\* the final pass compares the sources as written, not normalized
FinalStepRaw(acc, r) ==
  LET norm == r.src
  IN  IF ~r.ok
      THEN [acc EXCEPT !.removed = Append(@, Rem(r, r.reason)),
                       !.seenFinalIds = @ \cup {r.id},
                       !.seenFinalSrcs = IF norm # NoSrc THEN @ \cup {norm} ELSE @]
      ELSE IF r.id \in acc.seenFinalIds
      THEN [acc EXCEPT !.removed = Append(@, Rem(r, "duplicate-id"))]
      ELSE IF norm # NoSrc /\ norm \in acc.seenFinalSrcs
      THEN [acc EXCEPT !.removed = Append(@, Rem(r, "duplicate-src")),
                       !.seenFinalIds = @ \cup {r.id}]
      ELSE [acc EXCEPT !.kept = Append(@, KeptBlock(r)),
                       !.seenFinalIds = @ \cup {r.id},
                       !.seenFinalSrcs = IF norm # NoSrc THEN @ \cup {norm} ELSE @]

\* the normalization also strips scheme and host: sources are compared by
\* their path only
FinalStepPathOnly(acc, r) ==
  LET norm == IF r.src = NoSrc THEN NoSrc
              ELSE [normalizeSrc(r.src) EXCEPT !.abs = FALSE]
  IN  IF ~r.ok
      THEN [acc EXCEPT !.removed = Append(@, Rem(r, r.reason)),
                       !.seenFinalIds = @ \cup {r.id},
                       !.seenFinalSrcs = IF norm # NoSrc THEN @ \cup {norm} ELSE @]
      ELSE IF r.id \in acc.seenFinalIds
      THEN [acc EXCEPT !.removed = Append(@, Rem(r, "duplicate-id"))]
      ELSE IF norm # NoSrc /\ norm \in acc.seenFinalSrcs
      THEN [acc EXCEPT !.removed = Append(@, Rem(r, "duplicate-src")),
                       !.seenFinalIds = @ \cup {r.id}]
      ELSE [acc EXCEPT !.kept = Append(@, KeptBlock(r)),
                       !.seenFinalIds = @ \cup {r.id},
                       !.seenFinalSrcs = IF norm # NoSrc THEN @ \cup {norm} ELSE @]

\* main, final pass, one result
FinalStep(acc, r) ==
  LET norm == normalizeSrc(r.src)
  IN  IF ~r.ok
      THEN [acc EXCEPT !.removed = Append(@, Rem(r, r.reason)),
                       !.seenFinalIds = @ \cup {r.id},
                       !.seenFinalSrcs = IF norm # NoSrc THEN @ \cup {norm} ELSE @]
      ELSE IF r.id \in acc.seenFinalIds
      THEN [acc EXCEPT !.removed = Append(@, Rem(r, "duplicate-id"))]
      ELSE IF norm # NoSrc /\ norm \in acc.seenFinalSrcs
      THEN [acc EXCEPT !.removed = Append(@, Rem(r, "duplicate-src")),
                       !.seenFinalIds = @ \cup {r.id}]
      ELSE [acc EXCEPT !.kept = Append(@, KeptBlock(r)),
                       !.seenFinalIds = @ \cup {r.id},
                       !.seenFinalSrcs = IF norm # NoSrc THEN @ \cup {norm} ELSE @]

RECURSIVE FinalPass(_, _)
FinalPass(results, acc) ==
  IF results = <<>> THEN acc
  ELSE FinalPass(Tail(results), FinalStep(acc, Head(results)))

\* main: both passes over the extracted blocks
Dedup(blocks, net) ==
  FinalPass(FirstPass(blocks, {}, {}, net),
            [kept |-> <<>>, removed |-> <<>>, seenFinalIds |-> {}, seenFinalSrcs |-> {}])

\* the ids of a sequence of blocks, in order (the data-id values of index.html)
BlockIds(blocks) == [i \in DOMAIN blocks |-> blocks[i].id]

\* main, update views.json: for (const id of seenFinalIds) if (viewsData[id]) ...
PruneViews(viewsData, ids) ==
  [id \in {i \in ids : i \in DOMAIN viewsData} |-> viewsData[id]]

\* Number.isFinite(x) ? x : 0 (-1 stands for a value that is not a number)
FiniteOr0(x) == IF x >= 0 THEN x ELSE 0

\* added++ moved out of the if: every data-id of index.html is counted
SyncStepCountAll(acc, id) ==
  IF id \notin DOMAIN acc.views
  THEN [views |-> acc.views @@ (id :> ZeroEntry), added |-> acc.added + 1]
  ELSE [acc EXCEPT !.views[id].views = FiniteOr0(@),
                   !.views[id].hearts = FiniteOr0(@),
                   !.added = @ + 1]

\* sync, add missing ids: one id of index.html
SyncStep(acc, id) ==
  IF id \notin DOMAIN acc.views
  THEN [views |-> acc.views @@ (id :> ZeroEntry), added |-> acc.added + 1]
  ELSE [acc EXCEPT !.views[id].views = FiniteOr0(@),
                   !.views[id].hearts = FiniteOr0(@)]

RECURSIVE SyncAdd(_, _)
SyncAdd(ids, acc) ==
  IF ids = <<>> THEN acc ELSE SyncAdd(Tail(ids), SyncStep(acc, Head(ids)))

\* sync, remove the entries whose id is not in index.html
SyncRemove(views, ids) == [id \in DOMAIN views \cap Elems(ids) |-> views[id]]

\* what a catalog tool reports; again: the same tool ran just before it
Report(op, wrote, kept, removedBlocks, scanned, added, removed) ==
  [op |-> op, again |-> tool.op = op, wrote |-> wrote, kept |-> kept,
   removedBlocks |-> removedBlocks, scanned |-> scanned, added |-> added,
   removed |-> removed,
   prevRemoved |-> IF tool.op = "fix" THEN Len(tool.removedBlocks) ELSE 0]

\* no catalog tool has run yet
NoTool ==
  [op |-> "none", again |-> FALSE, wrote |-> FALSE, kept |-> 0,
   removedBlocks |-> <<>>, scanned |-> 0, added |-> 0, removed |-> 0,
   prevRemoved |-> 0]

\* a handled request and its response; again: a /heart request that repeats
\* the request handled just before it (same id, same user, same status)
Req(op, id, uid, status, body) ==
  [op |-> op, id |-> id, uid |-> uid, status |-> status, body |-> body,
   again |-> op = "heart" /\ last.op = op /\ last.id = id /\ last.uid = uid
             /\ last.status = status]

Started ==
  [op |-> "start", id |-> NoId, uid |-> NoUser, status |-> 0, body |-> NoBody,
   again |-> FALSE]

\* ------------------------------------------------------------- checkUrl
\* the value of { ok: false }: status and contentType are undefined
NotOk == [ok |-> FALSE, status |-> -1, contentType |-> "undefined"]

\* status codes and content-type headers a server may answer with ("": the
\* header is missing)
Statuses == {199, 200, 204, 299, 300, 404}
ContentTypes == {"image/png", "Image/PNG", "text/html", ""}

\* String.prototype.toLowerCase on these headers
ToLowerCase(ct) == IF ct = "Image/PNG" THEN "image/png" ELSE ct

\* ct.startsWith('image')
StartsWithImage(ct) == ct = "image/png"

\* the response callback: the result it resolves with
ResponseResult(status, header) ==
  LET ct == ToLowerCase(header)
  IN  [ok |-> status >= 200 /\ status < 300 /\ StartsWithImage(ct),
       status |-> status, contentType |-> ct]

\* a call of checkUrl: promise (pending / settled / rejected) and its value,
\* the request (none / sent / destroyed), the events that have fired, and,
\* as history, which event came first and the response that arrived
NoProbe ==
  [url |-> "none", promise |-> "none", result |-> NotOk, req |-> "none",
   response |-> FALSE, errored |-> FALSE, timedout |-> FALSE,
   first |-> "none", status |-> 0, header |-> ""]

\* resolve that overwrites the value of a promise already settled
ResolveOverwrite(p, v) == [p EXCEPT !.promise = "settled", !.result = v]

\* resolve(v): settles a pending promise, does nothing on a settled one
Resolve(p, v) ==
  IF p.promise = "pending" THEN [p EXCEPT !.promise = "settled", !.result = v]
  ELSE p

\* history: the event that came first
First(p, ev) == IF p.first = "none" THEN [p EXCEPT !.first = ev] ELSE p

\* checkUrl(url) is called: new URL(url) throws on a malformed url and the
\* catch resolves { ok: false }; otherwise the request is sent
CallCheckUrl(url) ==
  /\ probe.promise = "none"
  /\ probe' =
       LET p == [probe EXCEPT !.url = url, !.promise = "pending"]
       IN  IF url = "malformed" THEN Resolve(First(p, "malformed"), NotOk)
           ELSE [p EXCEPT !.req = "sent"]

\* the response headers arrive: the callback of lib.request
OnResponse(status, header) ==
  /\ probe.req = "sent" /\ ~probe.response
  /\ probe' =
       Resolve([First(probe, "response") EXCEPT !.response = TRUE,
                                               !.status = status,
                                               !.header = header],
               ResponseResult(status, header))

\* res.once('data', () => req.destroy())
OnData ==
  /\ probe.req = "sent" /\ probe.response
  /\ probe' = [probe EXCEPT !.req = "destroyed"]

\* req.on('error'): a network error, or the error a destroyed request emits
OnError ==
  /\ probe.req \in {"sent", "destroyed"} /\ ~probe.errored
  /\ probe' = Resolve([First(probe, "error") EXCEPT !.errored = TRUE,
                                                    !.req = "destroyed"],
                      NotOk)

\* req.on('timeout'): the socket was idle for the timeout
OnTimeout ==
  /\ probe.req = "sent" /\ ~probe.timedout
  /\ probe' = Resolve([First(probe, "timeout") EXCEPT !.timedout = TRUE,
                                                      !.req = "destroyed"],
                      NotOk)

\* ------------------------------------------------ extractImageContainers
\* The markup is a sequence of pieces:
\*   "Q"  <div class="image-container" data-id="..">   (a qualifying opener)
\*   "D"  <div ..>  without that class or without a data-id
\*   "C"  </div>
\*   "T"  text or other tags, holding neither <div nor </div>
\*   "U"  <div  cut off at the end of the input: no > follows it
\* A position is an index into the sequence; Len + 1 is the end of the input.
Tags == {"Q", "D", "C", "T"}

\* the inputs: up to MaxTags pieces, the last of which may be a cut-off <div
Markups ==
  LET whole == UNION {[1..n -> Tags] : n \in 0..MaxTags}
  IN  whole \cup {Append(h, "U") : h \in {w \in whole : Len(w) < MaxTags}}

\* html.indexOf('<div', from): the first opener at or after from, 0 if none
IndexOfDiv(html, from) ==
  LET at == {i \in from..Len(html) : html[i] \in {"Q", "D", "U"}}
  IN  IF at = {} THEN 0 ELSE CHOOSE i \in at : \A j \in at : i <= j

\* re.exec(html) for /<div\b|<\/div>/ig from lastIndex: the first opener or
\* closer at or after from, 0 if none (match === null)
ExecDivRe(html, from) ==
  LET at == {i \in from..Len(html) : html[i] \in {"Q", "D", "U", "C"}}
  IN  IF at = {} THEN 0 ELSE CHOOSE i \in at : \A j \in at : i <= j

\* only a closer changes the depth
DepthAfterClosersOnly(depth, tag) == IF tag = "C" THEN depth - 1 ELSE depth

\* if (match[0].toLowerCase().startsWith('<div')) depth++; else depth--;
DepthAfter(depth, tag) == IF tag = "C" THEN depth - 1 ELSE depth + 1

\* the unmatched block is dropped and the scan goes on behind its opener
UnmatchedContinue(sc) == [sc EXCEPT !.pc = "outer", !.idx = sc.openIdx + 1]

\* if (match === null) break; // unmatched; stop
Unmatched(sc) == [sc EXCEPT !.pc = "done", !.unmatched = sc.openIdx]

\* no call yet
NoScan ==
  [html |-> <<>>, pc |-> "none", idx |-> 0, openIdx |-> 0, depth |-> 0,
   lastIndex |-> 0, blocks |-> <<>>, unmatched |-> 0]

\* extractImageContainers(html) is called: blocks = [], idx = 0
CallExtract(html) ==
  /\ scan.pc = "none"
  /\ scan' = [NoScan EXCEPT !.html = html, !.pc = "outer", !.idx = 1]

\* one turn of while (true), up to the inner loop
ScanOuter ==
  /\ scan.pc = "outer"
  /\ LET openIdx == IndexOfDiv(scan.html, scan.idx) IN
     scan' =
       IF openIdx = 0 THEN [scan EXCEPT !.pc = "done"]
       ELSE IF scan.html[openIdx] = "U"        \* tagEnd === -1
       THEN [scan EXCEPT !.pc = "done"]
       ELSE IF scan.html[openIdx] = "D"        \* not a candidate: skip the tag
       THEN [scan EXCEPT !.idx = openIdx + 1]
       ELSE [scan EXCEPT !.pc = "inner", !.openIdx = openIdx, !.depth = 1,
                         !.lastIndex = openIdx + 1]

\* one turn of while ((match = re.exec(html)) !== null), and what follows
\* the loop when it ends
ScanInner ==
  /\ scan.pc = "inner"
  /\ LET match == ExecDivRe(scan.html, scan.lastIndex) IN
     scan' =
       IF match = 0 THEN Unmatched(scan)
       ELSE LET depth == DepthAfter(scan.depth, scan.html[match]) IN
            IF depth = 0
            THEN [scan EXCEPT !.blocks = Append(@, [from |-> scan.openIdx, to |-> match]),
                              !.idx = match + 1, !.depth = 0,
                              !.lastIndex = match + 1, !.pc = "outer"]
            ELSE [scan EXCEPT !.depth = depth, !.lastIndex = match + 1]

\* ------------------------------------------------------------------ Init
Init ==
  /\ data = <<>>
  /\ users = <<>>
  /\ protoHearted = <<>>
  /\ viewsFile = NoFile
  /\ usersFile = NoFile
  /\ last = Started
  /\ prev = [data |-> <<>>, users |-> <<>>]
  /\ anonViews = [id \in Ids |-> 0]
  /\ catalog = <<>>
  /\ reach = {}
  /\ tool = NoTool
  /\ inflight = {}
  /\ probe = NoProbe
  /\ scan = NoScan

\* --------------------------------------------------------------- actions
\* POST /register
Register(u, pw) ==
  /\ UNCHANGED <<data, protoHearted, viewsFile>>
  /\ IF u = "" \/ pw = ""
     THEN /\ last' = Req("register", NoId, u, 400, NoBody)
          /\ UNCHANGED <<users, usersFile>>
     ELSE IF Truthy(users, u)
     THEN /\ last' = Req("register", NoId, u, 409, NoBody)
          /\ UNCHANGED <<users, usersFile>>
     ELSE /\ users' = users @@ (u :> [password |-> pw, viewed |-> <<>>, hearted |-> <<>>])
          /\ usersFile' = saveUsers(users')
          /\ last' = Req("register", NoId, u, 200, NoBody)

\* POST /login
Login(u, pw) ==
  /\ UNCHANGED <<data, users, protoHearted, viewsFile, usersFile>>
  /\ IF ~Truthy(users, u) \/ ~Registered(users, u) \/ users[u].password # pw
     THEN last' = Req("login", NoId, u, 401, NoBody)
     ELSE last' = Req("login", NoId, u, 200, NoBody)

\* GET /views.json
GetViewsJson ==
  /\ UNCHANGED <<data, users, protoHearted, viewsFile, usersFile>>
  /\ last' = Req("viewsjson", NoId, NoUser, 200, ToSave(data))

\* GET /data/:id
GetData(id, uid) ==
  /\ data' = Ensure(data, id)
  /\ UNCHANGED <<users, protoHearted, viewsFile, usersFile>>
  /\ IF uid # NoUser /\ Truthy(users, uid) /\ ~Registered(users, uid)
     THEN \* users["toString"].viewed is undefined: .includes throws
          last' = Req("query", id, uid, 500, NoBody)
     ELSE last' = Req("query", id, uid, 200, Body(data', users, id, uid))

\* POST /view
PostView(id, uid) ==
  IF id = NoId
  THEN /\ last' = Req("view", id, uid, 400, NoBody)
       /\ UNCHANGED <<data, users, protoHearted, viewsFile, usersFile>>
  ELSE LET d1 == Ensure(data, id) IN
       /\ UNCHANGED protoHearted
       /\ IF uid # NoUser /\ Truthy(users, uid)
          THEN IF ~Registered(users, uid)
               THEN \* users["toString"].viewed is undefined: .includes throws
                    /\ data' = d1
                    /\ UNCHANGED <<users, viewsFile, usersFile>>
                    /\ last' = Req("view", id, uid, 500, NoBody)
               ELSE IF ~HasViewed(users[uid].viewed, id)
               THEN /\ d1[id].views < MaxViews
                    /\ data' = [d1 EXCEPT ![id] = IncViews(@)]
                    /\ users' = [users EXCEPT ![uid].viewed = Append(@, id)]
                    /\ usersFile' = saveUsers(users')
                    /\ viewsFile' = saveData(data')
                    /\ last' = Req("view", id, uid, 200, Body(data', users', id, uid))
               ELSE /\ data' = d1
                    /\ UNCHANGED <<users, viewsFile, usersFile>>
                    /\ last' = Req("view", id, uid, 200, Body(data', users, id, uid))
          ELSE /\ d1[id].views < MaxViews
               /\ data' = [d1 EXCEPT ![id] = IncViews(@)]
               /\ viewsFile' = saveData(data')
               /\ UNCHANGED <<users, usersFile>>
               /\ last' = Req("view", id, uid, 200, Body(data', users, id, uid))

\* POST /heart
PostHeart(id, uid) ==
  IF id = NoId
  THEN /\ last' = Req("heart", id, uid, 400, NoBody)
       /\ UNCHANGED <<data, users, protoHearted, viewsFile, usersFile>>
  ELSE IF uid = NoUser \/ ~Truthy(users, uid)
  THEN /\ last' = Req("heart", id, uid, 401, NoBody)
       /\ UNCHANGED <<data, users, protoHearted, viewsFile, usersFile>>
  ELSE LET d1  == Ensure(data, id)
           has == Includes(d1[id].usersHearted, uid)
       IN
       /\ data' = [d1 EXCEPT ![id] = ToggleEntry(@, uid)]
       /\ IF Registered(users, uid)
          THEN /\ users' = [users EXCEPT ![uid].hearted = ToggleHearted(@, id, has)]
               /\ UNCHANGED protoHearted
          ELSE \* the list lands on the inherited function object
               /\ protoHearted' = ToggleHearted(protoHearted, id, has)
               /\ UNCHANGED users
       /\ usersFile' = saveUsers(users')
       /\ viewsFile' = saveData(data')
       /\ last' = Req("heart", id, uid, 200,
                      [views |-> data'[id].views, hearts |-> data'[id].hearts,
                       userHasHearted |-> Includes(data'[id].usersHearted, uid)])

\* the server process is started again: memory is rebuilt from the stores
Restart ==
  /\ data' = LoadData(viewsFile)
  /\ users' = LoadUsers(usersFile)
  /\ protoHearted' = <<>>
  /\ UNCHANGED <<viewsFile, usersFile>>
  /\ last' = Started

\* the history variables: the state before the request, and the tally of the
\* views that were counted without a registered user; the request is handled
\* as it arrives, none is left waiting
Snapshot ==
  /\ prev' = [data |-> data, users |-> users]
  /\ UNCHANGED <<inflight, probe, scan>>
  /\ anonViews' =
       IF last'.op = "view" /\ last'.status = 200 /\ ~Registered(users, last'.uid)
       THEN [anonViews EXCEPT ![last'.id] = @ + 1]
       ELSE anonViews

\* --------------------------------------------------------- catalog tools
\* index.html is edited by hand: a block is added to the gallery
EditCatalog(b) ==
  /\ Len(catalog) < MaxBlocks
  /\ catalog' = Append(catalog, b)
  /\ tool' = Report("edit", TRUE, 0, <<>>, 0, 0, 0)
  /\ UNCHANGED <<viewsFile, reach>>

\* resetCounters.js: views.json is replaced by zero counters for pandaIds
ResetCounters ==
  /\ viewsFile' = [exists |-> TRUE, json |-> [id \in PandaIds |-> ZeroEntry]]
  /\ tool' = Report("reset", TRUE, 0, <<>>, 0, 0, 0)
  /\ UNCHANGED <<catalog, reach>>

\* tools/fix-images.js: main
RunFixImages ==
  /\ UNCHANGED reach
  /\ IF catalog = <<>>
     THEN \* No .image-container blocks found: nothing is written
          /\ tool' = Report("fix", FALSE, 0, <<>>, 0, 0, 0)
          /\ UNCHANGED <<catalog, viewsFile>>
     ELSE LET fin == Dedup(catalog, reach) IN
          /\ catalog' = fin.kept
          /\ viewsFile' =
               IF viewsFile.exists
               THEN [exists |-> TRUE,
                     json |-> PruneViews(viewsFile.json, fin.seenFinalIds)]
               ELSE viewsFile
          /\ tool' = Report("fix", TRUE, Len(fin.kept), fin.removed, 0, 0, 0)

\* the sync script: views.json gets the ids of index.html, no others
RunSync ==
  LET ids    == BlockIds(catalog)
      views  == IF viewsFile.exists THEN viewsFile.json ELSE <<>>
      synced == SyncAdd(ids, [views |-> views, added |-> 0])
      final  == SyncRemove(synced.views, ids)
  IN  /\ viewsFile' = [exists |-> TRUE, json |-> final]
      /\ tool' = Report("sync", TRUE, 0, <<>>, Len(ids), synced.added,
                        Cardinality(DOMAIN synced.views \ DOMAIN final))
      /\ UNCHANGED <<catalog, reach>>

\* the server handles one request (or is restarted); the tools do not run
Next ==
  \/ \E u \in UserNames \cup {ProtoUser, ""}, pw \in {"pw", ""} :
        Register(u, pw) /\ Snapshot /\ UNCHANGED toolVars
  \/ \E u \in UserNames, pw \in {"pw", "bad"} :
        Login(u, pw) /\ Snapshot /\ UNCHANGED toolVars
  \/ GetViewsJson /\ Snapshot /\ UNCHANGED toolVars
  \/ \E id \in Ids, uid \in UserIds \cup {NoUser} :
        GetData(id, uid) /\ Snapshot /\ UNCHANGED toolVars
  \/ \E id \in Ids \cup {NoId}, uid \in UserIds \cup {NoUser} :
        PostView(id, uid) /\ Snapshot /\ UNCHANGED toolVars
  \/ \E id \in Ids \cup {NoId}, uid \in UserIds \cup {NoUser} :
        PostHeart(id, uid) /\ Snapshot /\ UNCHANGED toolVars
  \/ Restart /\ Snapshot /\ UNCHANGED toolVars

\* the engagement server alone: requests and restarts, from empty stores
Spec == Init /\ [][Next]_vars

\* a ledger store the server wrote earlier, or one with a damaged count
StoreChoices ==
  {NoFile,
   saveData([id \in Ids |->
               IF id = "panda1"
               THEN [views |-> 2, hearts |-> 1, usersHearted |-> <<"u1">>]
               ELSE [views |-> 1, hearts |-> 0, usersHearted |-> <<>>]]),
   [exists |-> TRUE,
    json |-> ("panda6" :> [views |-> -1, hearts |-> 0, usersHearted |-> <<>>])
             @@ ("panda2" :> [views |-> 1, hearts |-> 1, usersHearted |-> <<"u1">>])]}

\* the catalog tools alone, on any catalog, network and ledger store
InitTools ==
  /\ data = <<>>
  /\ users = <<>>
  /\ protoHearted = <<>>
  /\ usersFile = NoFile
  /\ last = Started
  /\ prev = [data |-> <<>>, users |-> <<>>]
  /\ anonViews = [id \in Ids |-> 0]
  /\ catalog = <<>>
  /\ tool = NoTool
  /\ inflight = {}
  /\ probe = NoProbe
  /\ scan = NoScan
  /\ viewsFile \in StoreChoices
  /\ reach \in SUBSET AbsUrls

NextTools ==
  \/ \E b \in Blocks : EditCatalog(b) /\ UNCHANGED <<usersFile, serverVars, probe, scan>>
  \/ ResetCounters /\ UNCHANGED <<usersFile, serverVars, probe, scan>>
  \/ RunFixImages /\ UNCHANGED <<usersFile, serverVars, probe, scan>>
  \/ RunSync /\ UNCHANGED <<usersFile, serverVars, probe, scan>>

SpecTools == InitTools /\ [][NextTools]_vars

\* a run of a catalog tool, as an entry of the history of requests
ToolRun(op) ==
  [op |-> op, id |-> NoId, uid |-> NoUser, status |-> 0, body |-> NoBody,
   again |-> FALSE]

\* the gallery of index.html: one panda, or two pandas showing the same image
SystemCatalogs ==
  {<<[id |-> "panda1", src |-> Src(FALSE, FALSE, FALSE, FALSE)]>>,
   <<[id |-> "panda1", src |-> Src(FALSE, FALSE, FALSE, FALSE)],
     [id |-> "panda6", src |-> Src(FALSE, FALSE, FALSE, FALSE)]>>}

\* the server is started without stores; index.html holds the gallery
InitSystem ==
  /\ data = <<>>
  /\ users = <<>>
  /\ protoHearted = <<>>
  /\ viewsFile = NoFile
  /\ usersFile = NoFile
  /\ last = Started
  /\ prev = [data |-> <<>>, users |-> <<>>]
  /\ anonViews = [id \in Ids |-> 0]
  /\ catalog \in SystemCatalogs
  /\ reach = {}
  /\ tool = NoTool
  /\ inflight = {}
  /\ probe = NoProbe
  /\ scan = NoScan

\* a catalog tool is run as a process of its own, next to the server: it
\* reads and writes the files, the server's memory is not touched
ToolStep(op) ==
  /\ last' = ToolRun(op)
  /\ Snapshot
  /\ UNCHANGED <<data, users, protoHearted, usersFile>>

\* the server counts views and answers queries while the reset script is run
\* on its views.json (at most MaxViews views of an id in all, so that the
\* tally of the views stays bounded across resets)
NextReset ==
  \/ \E id \in Ids : GetData(id, NoUser) /\ Snapshot /\ UNCHANGED toolVars
  \/ \E id \in Ids :
        /\ anonViews[id] < MaxViews
        /\ PostView(id, NoUser) /\ Snapshot /\ UNCHANGED toolVars
  \/ Restart /\ Snapshot /\ UNCHANGED toolVars
  \/ ResetCounters /\ ToolStep("reset")

SpecReset == InitSystem /\ [][NextReset]_vars

\* the whole system as far as hearts go: a user registers and toggles hearts,
\* the server is restarted, and the maintenance scripts are run on the same
\* views.json while it is up
NextSystem ==
  \/ Register("u1", "pw") /\ Snapshot /\ UNCHANGED toolVars
  \/ \E id \in Ids : GetData(id, "u1") /\ Snapshot /\ UNCHANGED toolVars
  \/ \E id \in Ids : PostHeart(id, "u1") /\ Snapshot /\ UNCHANGED toolVars
  \/ Restart /\ Snapshot /\ UNCHANGED toolVars
  \/ ResetCounters /\ ToolStep("reset")
  \/ RunSync /\ ToolStep("sync")
  \/ RunFixImages /\ ToolStep("fix")

SpecSystem == InitSystem /\ [][NextSystem]_vars

\* two users that have registered
RaceUsers == {"u1", "u2"}

\* the server with both users registered, nothing viewed or hearted yet
InitRace ==
  /\ data = <<>>
  /\ users = [u \in RaceUsers |-> [password |-> "pw", viewed |-> <<>>, hearted |-> <<>>]]
  /\ protoHearted = <<>>
  /\ viewsFile = NoFile
  /\ usersFile = saveUsers(users)
  /\ last = Started
  /\ prev = [data |-> <<>>, users |-> <<>>]
  /\ anonViews = [id \in Ids |-> 0]
  /\ catalog = <<>>
  /\ reach = {}
  /\ tool = NoTool
  /\ inflight = {}
  /\ probe = NoProbe
  /\ scan = NoScan

\* two /heart requests for the same id, one of each user, are received
\* together: express.json() has parsed both bodies before either handler runs
ArriveHearts(id) ==
  /\ inflight = {}
  /\ inflight' = {[id |-> id, uid |-> u] : u \in RaceUsers}
  /\ UNCHANGED <<data, users, protoHearted, viewsFile, usersFile, last, prev,
                 anonViews, toolVars, probe, scan>>

\* the event loop runs the handler of one waiting request; the handler has
\* no await and writes with writeFileSync: it runs to completion
HandleHeart(r) ==
  /\ r \in inflight
  /\ PostHeart(r.id, r.uid)
  /\ inflight' = inflight \ {r}
  /\ prev' = [data |-> data, users |-> users]
  /\ UNCHANGED <<anonViews, toolVars, probe, scan>>

NextRace ==
  \/ \E id \in Ids : ArriveHearts(id)
  \/ \E r \in inflight : HandleHeart(r)

SpecRace == InitRace /\ [][NextRace]_vars

\* what a call of checkUrl leaves alone
probeFrame == <<viewsFile, usersFile, serverVars, toolVars, scan>>

\* one call of checkUrl and the events of its request, in any order
NextProbe ==
  \/ \E url \in {"http://h/p.jpg", "malformed"} :
        CallCheckUrl(url) /\ UNCHANGED probeFrame
  \/ \E st \in Statuses, h \in ContentTypes :
        OnResponse(st, h) /\ UNCHANGED probeFrame
  \/ OnData /\ UNCHANGED probeFrame
  \/ OnError /\ UNCHANGED probeFrame
  \/ OnTimeout /\ UNCHANGED probeFrame

\* checkUrl is called, and the socket timeout (timeout: 8000) fires when the
\* request stays idle
SpecProbe ==
  /\ Init /\ [][NextProbe]_vars
  /\ WF_vars(\E url \in {"http://h/p.jpg", "malformed"} :
               CallCheckUrl(url) /\ UNCHANGED probeFrame)
  /\ WF_vars(OnTimeout /\ UNCHANGED probeFrame)

\* what a call of extractImageContainers leaves alone
scanFrame == <<viewsFile, usersFile, serverVars, toolVars, probe>>

\* one call of extractImageContainers on any markup, loop turn by loop turn
NextExtract ==
  \/ /\ scan.pc = "none"
     /\ \E html \in Markups : CallExtract(html) /\ UNCHANGED scanFrame
  \/ ScanOuter /\ UNCHANGED scanFrame
  \/ ScanInner /\ UNCHANGED scanFrame

\* the function is called and its loops keep running
SpecExtract ==
  /\ Init /\ [][NextExtract]_vars
  /\ WF_vars(NextExtract)

\* ------------------------------------------------------------ the claims
\* views / hearts / hearters of an id, an id without entry counting as zero
ViewsOf(d, id) == IF id \in DOMAIN d THEN d[id].views ELSE 0
HeartsOf(d, id) == IF id \in DOMAIN d THEN d[id].hearts ELSE 0
HeartedBy(d, id) == IF id \in DOMAIN d THEN Elems(d[id].usersHearted) ELSE {}

\* the registered users whose viewed list holds id
Viewers(us, id) == {u \in DOMAIN us : Includes(us[u].viewed, id)}

\* the stores and the server's memory
Ledger == <<data, users, protoHearted, viewsFile, usersFile>>

\* C1: in every reachable state of the server, every ledger entry has
\* hearts = |usersHearted|, in memory and in views.json
Theorem_C1 ==
  /\ \A id \in DOMAIN data :
        data[id].hearts = Cardinality(Elems(data[id].usersHearted))
  /\ \A id \in DOMAIN viewsFile.json :
        viewsFile.json[id].hearts = Cardinality(Elems(viewsFile.json[id].usersHearted))

\* C1 witness: a panda hearted by two users, then un-hearted by one of them
Witness_C1 ==
  /\ last.op = "heart" /\ last.status = 200
  /\ HeartsOf(prev.data, last.id) = 2
  /\ data[last.id].hearts = 1
  /\ viewsFile.json[last.id].hearts = 1

\* C2: for every registered user u and id, id is in users[u].hearted iff u is
\* in data[id].usersHearted, and id occurs at most once in users[u].hearted
Theorem_C2 ==
  \A u \in DOMAIN users : \A id \in Ids :
    /\ Includes(users[u].hearted, id) <=> u \in HeartedBy(data, id)
    /\ Count(users[u].hearted, id) <= 1

\* C2 witness: a registered user hearts both pandas, then un-hearts the first
Witness_C2 ==
  /\ last.op = "heart" /\ last.status = 200 /\ Registered(users, last.uid)
  /\ Len(prev.users[last.uid].hearted) = 2
  /\ Len(users[last.uid].hearted) = 1
  /\ prev.users[last.uid].hearted[1] = last.id

\* C3 (state part): the views of an id are the anonymous views plus one per
\* registered user who viewed it, and no id occurs twice in a viewed list
ViewsAccounted ==
  /\ \A id \in Ids :
        ViewsOf(data, id) = anonViews[id] + Cardinality(Viewers(users, id))
  /\ \A u \in DOMAIN users : \A id \in Ids : Count(users[u].viewed, id) <= 1

\* C3 (step part): a /view by a registered user counts once: the first adds 1
\* to views and the id to viewed, a later one changes and persists nothing
UserViewStep ==
  (last'.op = "view" /\ last'.status = 200 /\ Registered(users, last'.uid)) =>
    LET id == last'.id
        u  == last'.uid
    IN  /\ Count(users'[u].viewed, id) = 1
        /\ IF Includes(users[u].viewed, id)
           THEN UNCHANGED Ledger
           ELSE ViewsOf(data', id) = ViewsOf(data, id) + 1

\* C3: any number of recordUserView(id, u) requests contributes exactly 1 to
\* data[id].views and puts id exactly once in users[u].viewed; the second and
\* later requests change neither the ledger nor the user store nor the files
Theorem_C3 == []ViewsAccounted /\ [][UserViewStep]_vars

\* C3 witness: a repeated view by a registered user, after an anonymous view
\* of the same id
Witness_C3 ==
  /\ last.op = "view" /\ last.status = 200 /\ Registered(users, last.uid)
  /\ Includes(prev.users[last.uid].viewed, last.id)
  /\ anonViews[last.id] = 1
  /\ data[last.id].views = 2

\* C4 (state part): with no registered viewer, views is the number of
\* anonymous views; a query without a user answers the entry's counts and
\* false for both flags
AnonymousCounted ==
  /\ \A id \in Ids : Viewers(users, id) = {} => ViewsOf(data, id) = anonViews[id]
  /\ (last.op = "query" /\ last.uid = NoUser) =>
        /\ last.status = 200
        /\ last.body = [views |-> ViewsOf(data, last.id),
                        hearts |-> Cardinality(HeartedBy(data, last.id)),
                        userHasHearted |-> FALSE, userHasViewed |-> FALSE]

\* C4 (step part): an anonymous view adds exactly 1, from 0 for a new id
AnonymousViewStep ==
  (last'.op = "view" /\ last'.uid = NoUser /\ last'.id # NoId) =>
    /\ last'.status = 200
    /\ ViewsOf(data', last'.id) = ViewsOf(data, last'.id) + 1
    /\ last'.body.views = ViewsOf(data, last'.id) + 1

\* C4: N anonymous views of an id add exactly N to its views, starting from
\* 0 for a new id; a following query without a user returns that count,
\* hearts 0 when nobody hearts it, and false for hasViewed and hasHearted
Theorem_C4 == []AnonymousCounted /\ [][AnonymousViewStep]_vars

\* C4 witness: two anonymous views of an id nobody else viewed or hearted,
\* then a query without a user
Witness_C4 ==
  /\ last.op = "query" /\ last.uid = NoUser
  /\ anonViews[last.id] = 2 /\ Viewers(users, last.id) = {}
  /\ last.body.views = 2 /\ last.body.hearts = 0

\* C5: two consecutive toggleHeart(id, u) by a registered user u restore
\* hearts, the set usersHearted and the set of ids in users[u].hearted to
\* their values before the first toggle, and leave all views unchanged
\* (prev is the state before the first of the two, last' the second)
Theorem_C5 ==
  [][(last.op = "heart" /\ last.status = 200 /\ Registered(users, last.uid)
      /\ last'.op = "heart" /\ last'.again) =>
       /\ HeartsOf(data', last.id) = HeartsOf(prev.data, last.id)
       /\ HeartedBy(data', last.id) = HeartedBy(prev.data, last.id)
       /\ Elems(users'[last.uid].hearted) = Elems(prev.users[last.uid].hearted)
       /\ \A id \in Ids : ViewsOf(data', id) = ViewsOf(prev.data, id)]_vars

\* C5 witness: a registered user has toggled the same heart twice in a row,
\* on a panda another user hearts
Witness_C5 ==
  /\ last.op = "heart" /\ last.again /\ last.status = 200
  /\ Registered(users, last.uid)
  /\ HeartsOf(data, last.id) = 1

\* C6 as claimed: a /heart with an id and no user id, or a user id that is
\* not a registered user, answers 401 and changes nothing
Claim_C6 ==
  [][(last'.op = "heart" /\ last'.id # NoId /\ ~Registered(users, last'.uid)) =>
       (last'.status = 401 /\ UNCHANGED Ledger)]_vars

\* C7 as claimed: a query changes nothing, in memory or in the stores
Claim_C7 ==
  [][(last'.op \in {"query", "viewsjson"}) => UNCHANGED Ledger]_vars

\* C7 amended: a query changes no existing ledger entry, no user record and
\* no store; an id without an entry gets a zero entry in memory
Theorem_C7 ==
  [][(last'.op \in {"query", "viewsjson"}) =>
       /\ UNCHANGED <<users, protoHearted, viewsFile, usersFile>>
       /\ \A id \in DOMAIN data : id \in DOMAIN data' /\ data'[id] = data[id]
       /\ \A id \in DOMAIN data' \ DOMAIN data :
             id = last'.id /\ data'[id] = ZeroEntry]_vars

\* C7 witness: a query of a panda that has views and a hearter, and a query
\* that created the entry of a panda that had none
Witness_C7 ==
  /\ last.op = "query" /\ last.status = 200
  /\ \E id \in DOMAIN data : data[id].views > 0 /\ data[id].hearts > 0
  /\ last.id \notin DOMAIN prev.data
  /\ data[last.id] = ZeroEntry

\* C8: with a network that answers the same for the same URL, a run of
\* fix-images right after a run of fix-images keeps every block: the catalog
\* written by the first run is written again, same blocks, same order,
\* nothing removed
Theorem_C8 ==
  [][(tool.op = "fix" /\ tool'.op = "fix") =>
       /\ catalog' = catalog
       /\ tool'.removedBlocks = <<>>
       /\ tool'.kept = Len(catalog)]_vars

\* C8 witness: a second run in a row, after a first run that removed a block
\* and kept two, one of them probed over the network
Witness_C8 ==
  /\ tool.op = "fix" /\ tool.again /\ tool.wrote
  /\ tool.prevRemoved > 0
  /\ Len(catalog) = 2
  /\ \E i \in DOMAIN catalog : IsHttp(catalog[i].src)

\* C9 as claimed: a reconciler (the sync script, or fix-images with its
\* views.json update) run right after a run of itself leaves the ledger store
\* written by the first run unchanged, and the sync script then reports
\* added = 0 and removed = 0
Claim_C9 ==
  [][(tool.op \in {"fix", "sync"} /\ tool'.op = tool.op) =>
       /\ viewsFile' = viewsFile
       /\ tool'.added = 0
       /\ tool'.removed = 0]_vars

\* the sync script taken alone is idempotent
SyncIdempotent ==
  [][(tool.op = "sync" /\ tool'.op = "sync") =>
       /\ viewsFile' = viewsFile
       /\ tool'.added = 0
       /\ tool'.removed = 0]_vars

\* C10 as claimed: after fix-images has rewritten the catalog and views.json,
\* the ids of the ledger store are exactly the ids of the kept blocks
Claim_C10 ==
  (tool.op = "fix" /\ tool.wrote /\ viewsFile.exists) =>
    DOMAIN viewsFile.json = Elems(BlockIds(catalog))

\* the half of C10 that the comment in fix-images states ("only keep entries
\* for kept ids"): no entry remains for an id none of whose blocks was kept
OnlyKeptIdsRemain ==
  (tool.op = "fix" /\ tool.wrote /\ viewsFile.exists) =>
    DOMAIN viewsFile.json \subseteq Elems(BlockIds(catalog))

\* the ledger store as the sync script reads it, and the ids of index.html
StoreOf(f) == IF f.exists THEN f.json ELSE <<>>
CatalogIds == Elems(BlockIds(catalog))

RECURSIVE IsSubseq(_, _)
IsSubseq(s, t) ==
  IF s = <<>> THEN TRUE
  ELSE IF t = <<>> THEN FALSE
  ELSE IF Head(s) = Head(t) THEN IsSubseq(Tail(s), Tail(t))
  ELSE IsSubseq(s, Tail(t))

\* the blocks named by the removal records, in the order reported
RemovedAsBlocks(rem) == [i \in DOMAIN rem |-> [id |-> rem[i].id, src |-> rem[i].src]]

Reasons == {"duplicate-id", "duplicate-src", "no-src", "unreachable"}

\* C12: a run of fix-images that rewrites the catalog keeps a subsequence of
\* the input blocks (original order), with pairwise distinct ids and pairwise
\* distinct normalized sources; every input block is either kept or reported
\* removed with a reason, exactly once; and when a kept block's id occurs
\* again, each later block with that id is reported duplicate-id
Theorem_C12 ==
  [][(tool'.op = "fix" /\ tool'.wrote) =>
       LET input == catalog
           kept  == catalog'
           rem   == tool'.removedBlocks
           gone  == RemovedAsBlocks(rem)
       IN  /\ IsSubseq(kept, input)
           /\ \A i, j \in DOMAIN kept :
                 i # j => /\ kept[i].id # kept[j].id
                          /\ normalizeSrc(kept[i].src) # normalizeSrc(kept[j].src)
           /\ IsSubseq(gone, input)
           /\ Len(kept) + Len(rem) = Len(input)
           /\ tool'.kept = Len(kept)
           /\ \A b \in Elems(input) :
                 Count(kept, b) + Count(gone, b) = Count(input, b)
           /\ \A i \in DOMAIN rem : rem[i].reason \in Reasons
           /\ \A i \in DOMAIN kept :
                 Cardinality({j \in DOMAIN rem : rem[j].id = kept[i].id
                                                 /\ rem[j].reason = "duplicate-id"})
                   = Count(BlockIds(input), kept[i].id) - 1]_vars

\* C12 witness: fix-images ran on three blocks with ids a, b, a: it kept two
\* and reported the third one as duplicate-id
Witness_C12 ==
  /\ tool.op = "fix" /\ tool.wrote /\ ~tool.again
  /\ BlockIds(catalog) = <<"panda1", "panda6">>
  /\ Len(tool.removedBlocks) = 1
  /\ tool.removedBlocks[1].id = "panda1"
  /\ tool.removedBlocks[1].reason = "duplicate-id"

\* the positions in input of the blocks that are not in kept, kept being
\* matched against input from the left (i: the position of Head(input))
RECURSIVE RemovedAt(_, _, _)
RemovedAt(input, kept, i) ==
  IF input = <<>> THEN <<>>
  ELSE IF kept # <<>> /\ Head(input) = Head(kept)
  THEN RemovedAt(Tail(input), Tail(kept), i + 1)
  ELSE <<i>> \o RemovedAt(Tail(input), kept, i + 1)

\* C13 as claimed: a block removed as duplicate-id has the id of a block
\* kept earlier in the sequence, a block removed as duplicate-src has the
\* normalized source of a block kept earlier in the sequence
Claim_C13 ==
  [][(tool'.op = "fix" /\ tool'.wrote) =>
       LET input == catalog
           rem   == tool'.removedBlocks
           at    == RemovedAt(catalog, catalog', 1)
           KeptBefore(p) == {i \in 1..(p - 1) : i \notin Elems(at)}
       IN  \A j \in DOMAIN rem :
             /\ rem[j].reason = "duplicate-id" =>
                   \E i \in KeptBefore(at[j]) : input[i].id = rem[j].id
             /\ rem[j].reason = "duplicate-src" =>
                   \E i \in KeptBefore(at[j]) :
                      normalizeSrc(input[i].src) = normalizeSrc(rem[j].src)]_vars

\* C13 amended: a block is removed as a duplicate only when it repeats
\* something already seen: a duplicate-id block has the id of an earlier
\* block of the sequence, a duplicate-src block has a source and its
\* normalized source is that of an earlier block of the sequence, the earlier
\* block being kept or dropped
Theorem_C13 ==
  [][(tool'.op = "fix" /\ tool'.wrote) =>
       LET input == catalog
           rem   == tool'.removedBlocks
           at    == RemovedAt(catalog, catalog', 1)
       IN  /\ Len(at) = Len(rem)
           /\ \A j \in DOMAIN rem :
                 /\ input[at[j]].id = rem[j].id /\ input[at[j]].src = rem[j].src
                 /\ rem[j].reason = "duplicate-id" =>
                       \E i \in 1..(at[j] - 1) : input[i].id = rem[j].id
                 /\ rem[j].reason = "duplicate-src" =>
                       /\ rem[j].src # NoSrc
                       /\ \E i \in 1..(at[j] - 1) :
                             normalizeSrc(input[i].src) = normalizeSrc(rem[j].src)]_vars

\* C13 witness: fix-images dropped an unreachable block and then, as
\* duplicate-src, a reachable block with the same normalized source: no
\* block was kept
Witness_C13 ==
  /\ tool.op = "fix" /\ tool.wrote
  /\ catalog = <<>>
  /\ Len(tool.removedBlocks) = 2
  /\ tool.removedBlocks[1].reason = "unreachable"
  /\ tool.removedBlocks[2].reason = "duplicate-src"
  /\ tool.removedBlocks[2].src \in reach

\* what a query without a user answers for an id whose entry is zero
ZeroBody ==
  [views |-> 0, hearts |-> 0, userHasHearted |-> FALSE, userHasViewed |-> FALSE]

\* C14 as claimed: right after the reset script has run, also while the
\* server is up with a ledger in memory, views.json holds exactly the ids of
\* pandaIds, all zero; a query that follows answers zero counts; and the store
\* written by the view that follows holds zero entries for every other id
Claim_C14 ==
  [][/\ (last'.op = "reset") =>
          /\ DOMAIN viewsFile'.json = PandaIds
          /\ \A id \in PandaIds : viewsFile'.json[id] = ZeroEntry
     /\ (last.op = "reset" /\ last'.op = "query") => last'.body = ZeroBody
     /\ (last.op = "reset" /\ last'.op = "view" /\ last'.status = 200) =>
          \A id \in DOMAIN viewsFile'.json \ {last'.id} :
             viewsFile'.json[id] = ZeroEntry]_vars

\* a reset followed by a restart of the server does take effect: the ledger
\* in memory is then the zero entries of pandaIds
ResetThenRestart ==
  [][(last.op = "reset" /\ last'.op = "start") =>
       /\ DOMAIN data' = PandaIds
       /\ \A id \in PandaIds : data'[id] = ZeroEntry]_vars

\* membership of u flipped in the set s
Flip(s, u) == IF u \in s THEN s \ {u} ELSE s \cup {u}

\* the step that handles the second of two /heart requests received together:
\* last is the first of them, prev the state before the first
SecondOfTwo == Cardinality(inflight) = 1 /\ inflight' = {}

\* C15 as claimed, as the outcome of the two requests: when both have been
\* handled, the hearters or hearts of the id, in memory or in views.json,
\* reflect only one of the two toggles
Claim_C15 ==
  [][SecondOfTwo =>
       LET id   == last'.id
           was  == HeartedBy(prev.data, id)
           one  == {Flip(was, last.uid), Flip(was, last'.uid)}
       IN  \/ HeartedBy(data', id) \in one
           \/ HeartedBy(StoreOf(viewsFile'), id) \in one
           \/ HeartsOf(data', id) # Cardinality(Flip(Flip(was, last.uid), last'.uid))
           \/ HeartsOf(StoreOf(viewsFile'), id)
                 # Cardinality(Flip(Flip(was, last.uid), last'.uid))]_vars

\* C15 amended: the handlers of two /heart requests for the same id by two
\* different registered users, received together, run one after the other in
\* either order, and after both the hearters and hearts of the id, in memory
\* and in views.json, and both users' hearted lists reflect both toggles
Theorem_C15 ==
  [][SecondOfTwo =>
       LET id   == last'.id
           a    == last.uid
           b    == last'.uid
           was  == HeartedBy(prev.data, id)
           both == Flip(Flip(was, a), b)
       IN  /\ a # b /\ last.id = id
           /\ last.status = 200 /\ last'.status = 200
           /\ HeartedBy(data', id) = both
           /\ HeartsOf(data', id) = Cardinality(both)
           /\ HeartedBy(StoreOf(viewsFile'), id) = both
           /\ HeartsOf(StoreOf(viewsFile'), id) = Cardinality(both)
           /\ \A u \in {a, b} :
                 /\ Includes(users'[u].hearted, id) <=> u \in both
                 /\ usersFile'.json[u].hearted = users'[u].hearted]_vars

\* C15 witness: two requests received together have both been handled, u2's
\* first, and both users heart the id, in memory and in views.json
Witness_C15 ==
  /\ inflight = {} /\ last.op = "heart" /\ last.uid = "u1"
  /\ HeartedBy(prev.data, last.id) = {"u2"}
  /\ data[last.id].usersHearted = <<"u2", "u1">>
  /\ viewsFile.json[last.id].hearts = 2

\* C16 as claimed: in every reachable state of the whole system, also after
\* the reset script or a reconciliation has run, for every registered user u
\* and id: id is in u's hearted list iff u is a hearter of the id's ledger
\* entry (no entry: no hearter), in the server's memory and in the stores
Claim_C16 ==
  /\ \A u \in DOMAIN users : \A id \in Ids :
        Includes(users[u].hearted, id) <=> u \in HeartedBy(data, id)
  /\ \A u \in DOMAIN StoreOf(usersFile) : \A id \in Ids :
        Includes(usersFile.json[u].hearted, id)
          <=> u \in HeartedBy(StoreOf(viewsFile), id)

\* C17 (state part): checkUrl never raises (its promise is never rejected);
\* a malformed url, an error or a timeout that came first gives { ok: false };
\* ok is true only when a response came first, with a status in [200, 300)
\* and a content-type that starts with image
ProbeSafe ==
  /\ probe.promise \in {"none", "pending", "settled"}
  /\ (probe.promise = "settled" /\ probe.first \in {"malformed", "error", "timeout"})
        => probe.result = NotOk
  /\ (probe.promise = "settled" /\ probe.result.ok) =>
        /\ probe.first = "response"
        /\ probe.status \in 200..299
        /\ probe.header \in {"image/png", "Image/PNG"}
  /\ (probe.first # "none") => probe.promise = "settled"

\* C17 (step part): the promise is settled once: no later event changes it
ProbeSettledOnce ==
  (probe.promise = "settled") => (probe'.promise = "settled" /\ probe'.result = probe.result)

\* C17: checkUrl never raises and always eventually completes with exactly
\* one result, whatever the order of the response, error and timeout events
Theorem_C17 ==
  /\ []ProbeSafe
  /\ [][ProbeSettledOnce]_vars
  /\ <>(probe.promise = "settled")

\* C17 witness: an image response came first (ok: true), then the socket
\* timed out and the destroyed request emitted an error
Witness_C17 ==
  /\ probe.first = "response" /\ probe.result.ok
  /\ probe.timedout /\ probe.errored
  /\ probe.header = "Image/PNG"

\* what GET /data/:id answers for (id, uid) when the server holds d and us
QueryOf(d, us, id, uid) ==
  IF uid # NoUser /\ Truthy(us, uid) /\ ~Registered(us, uid)
  THEN [status |-> 500, body |-> NoBody]
  ELSE [status |-> 200, body |-> Body(Ensure(d, id), us, id, uid)]

\* the store f holds the entry of id exactly as the ledger d holds it
SameEntry(f, d, id) ==
  /\ id \in DOMAIN StoreOf(f)
  /\ f.json[id].views = d[id].views
  /\ f.json[id].hearts = d[id].hearts
  /\ f.json[id].usersHearted = d[id].usersHearted

\* the store f is the serialization of the whole ledger d
SameLedger(f, d) ==
  /\ DOMAIN StoreOf(f) = DOMAIN d
  /\ \A id \in DOMAIN d : SameEntry(f, d, id)

\* the request just completed changed the ledger or the user store:
\* a view that counted, a toggleHeart, a register
Mutated ==
  /\ last'.status = 200
  /\ \/ last'.op = "heart"
     \/ last'.op = "register"
     \/ last'.op = "view" /\ ViewsOf(data', last'.id) # ViewsOf(data, last'.id)

\* a restart answers every query as the server answered it before
RestartSame ==
  (last'.op = "start") =>
    \A id \in Ids, uid \in UserIds \cup {NoUser} :
      QueryOf(data', users', id, uid) = QueryOf(data, users, id, uid)

\* C18 as claimed: after every completed mutating request views.json is the
\* serialization of the whole in-memory ledger and users.json is the
\* in-memory user store; and a restart answers every query as before
Claim_C18 ==
  [][/\ Mutated => (SameLedger(viewsFile', data') /\ StoreOf(usersFile') = users')
     /\ RestartSame]_vars

\* in every state users.json is the in-memory user store, and views.json
\* holds every in-memory entry as it is, except zero entries (created by a
\* query or a failed request and not written yet), and holds no other entry
PersistedUpToZero ==
  /\ StoreOf(usersFile) = users
  /\ DOMAIN StoreOf(viewsFile) \subseteq DOMAIN data
  /\ \A id \in DOMAIN data : SameEntry(viewsFile, data, id) \/ data[id] = ZeroEntry

\* C18 amended: after a view that counted and after a toggleHeart, views.json
\* is the serialization of the whole in-memory ledger; after these and after
\* a register, users.json is the in-memory user store; views.json lacks at
\* most zero entries in every state; and a restart answers every query for
\* every id and user as before
Theorem_C18 ==
  /\ []PersistedUpToZero
  /\ [][/\ (Mutated /\ last'.op # "register") => SameLedger(viewsFile', data')
        /\ Mutated => StoreOf(usersFile') = users'
        /\ RestartSame]_vars

\* C18 witness: the server was restarted when it held an entry with views
\* and a hearter, a user who has viewed, and a zero entry not yet written
Witness_C18 ==
  /\ last.op = "start"
  /\ \E id \in DOMAIN prev.data : id \notin DOMAIN data /\ prev.data[id] = ZeroEntry
  /\ \E id \in DOMAIN data : data[id].views = 2 /\ data[id].hearts = 1
  /\ \E u \in DOMAIN users : users[u].viewed # <<>>

\* the nesting depth at position j of a block opened at position from:
\* 1 at the opener, one more for every opener behind it, one less for
\* every closer
RunDepth(h, from, j) ==
  1 + Cardinality({i \in (from + 1)..j : h[i] \in {"Q", "D", "U"}})
    - Cardinality({i \in (from + 1)..j : h[i] = "C"})

\* the block opened at from is closed somewhere, and where: at the first
\* position that brings its depth to 0
Closes(h, from) == \E j \in (from + 1)..Len(h) : RunDepth(h, from, j) = 0
CloseOf(h, from) ==
  CHOOSE j \in (from + 1)..Len(h) :
    /\ RunDepth(h, from, j) = 0
    /\ \A k \in (from + 1)..(j - 1) : RunDepth(h, from, k) > 0

\* position i lies inside block b, behind its opener
Inside(b, i) == b.from < i /\ i <= b.to

\* C19 (result): the blocks returned are in document order and do not
\* overlap; each spans from a qualifying opener to the closer that brings
\* its depth from 1 to 0; every qualifying opener in front of the point
\* where the scan stopped is extracted unless it lies inside an extracted
\* block (so one nested in non-qualifying divs is extracted, and a div
\* inside a block is not); and when a block is never closed the scan stops
\* there with the blocks completed before it
ExtractedRight ==
  (scan.pc = "done") =>
    LET h     == scan.html
        bs    == scan.blocks
        limit == IF scan.unmatched # 0 THEN scan.unmatched ELSE Len(h) + 1
    IN  /\ \A k \in DOMAIN bs :
              /\ h[bs[k].from] = "Q"
              /\ Closes(h, bs[k].from)
              /\ bs[k].to = CloseOf(h, bs[k].from)
              /\ h[bs[k].to] = "C"
        /\ \A k \in DOMAIN bs : k < Len(bs) => bs[k].to < bs[k + 1].from
        /\ \A i \in 1..(limit - 1) :
              (h[i] = "Q" /\ \A k \in DOMAIN bs : ~Inside(bs[k], i))
                => \E k \in DOMAIN bs : bs[k].from = i
        /\ (scan.unmatched # 0) =>
              /\ h[scan.unmatched] = "Q"
              /\ ~Closes(h, scan.unmatched)
              /\ \A k \in DOMAIN bs : bs[k].to < scan.unmatched

\* C19: for every input extractImageContainers terminates, and returns the
\* blocks described above
Theorem_C19 == []ExtractedRight /\ <>(scan.pc = "done")

\* C19 witness: a qualifying block inside a non-qualifying div, with a div
\* nested in it, was extracted as one block
Witness_C19 ==
  /\ scan.pc = "done"
  /\ scan.html = <<"D", "Q", "D", "C", "C">>
  /\ scan.blocks = <<[from |-> 2, to |-> 5]>>

\* the qualifying openers that are never closed and lie in no returned block
Unterminated(h, bs) ==
  {i \in DOMAIN h : /\ h[i] = "Q" /\ ~Closes(h, i)
                    /\ \A k \in DOMAIN bs : ~Inside(bs[k], i)}

Least(S) == CHOOSE i \in S : \A j \in S : i <= j

\* C20 as claimed: when the scan has met an unterminated block, the first
\* complete qualifying block whose opener lies behind that block's opener is
\* still extracted
Claim_C20 ==
  (scan.pc = "done" /\ scan.unmatched # 0) =>
    LET h     == scan.html
        later == {i \in (scan.unmatched + 1)..Len(h) : h[i] = "Q" /\ Closes(h, i)}
    IN  later # {} => \E k \in DOMAIN scan.blocks : scan.blocks[k].from = Least(later)

\* C20 amended: when the scan meets an unterminated block it stops: the
\* blocks returned are those completed in front of that block's opener, and
\* no block whose opener lies behind it is extracted, complete or not
Theorem_C20 ==
  (scan.pc = "done" /\ Unterminated(scan.html, scan.blocks) # {}) =>
    LET h  == scan.html
        bs == scan.blocks
        u  == Least(Unterminated(h, bs))
    IN  /\ \A k \in DOMAIN bs : bs[k].to < u
        /\ \A i \in 1..(u - 1) :
              (h[i] = "Q" /\ \A k \in DOMAIN bs : ~Inside(bs[k], i))
                => \E k \in DOMAIN bs : bs[k].from = i

\* C20 witness: a complete block, then an unterminated one holding a
\* complete block: only the first was returned
Witness_C20 ==
  /\ scan.pc = "done"
  /\ scan.html = <<"Q", "C", "Q", "Q", "C">>
  /\ scan.unmatched = 3
  /\ scan.blocks = <<[from |-> 1, to |-> 2]>>

=============================================================================
